---- MODULE Spec2Model ----
(***************************************************************************)
(* Timing harnesses of the pandas/polars benchmark scripts.                *)
(*                                                                         *)
(*   measure_performance(func, n_runs)                                     *)
(*       src/src/pandas_polars_performance_compare.py, lines 9-15          *)
(*   measure_time()  (a context manager yielding an elapsed-time closure)  *)
(*       src/src/pandas_polars_performance_compare_2.py, lines 37-41       *)
(*                                                                         *)
(* Time is an integer number of clock ticks.  A statistic is an exact      *)
(* fraction [num, den]; stdev is kept as the fraction under its square     *)
(* root, so it is 0 exactly when that fraction is 0.                       *)
(***************************************************************************)
EXTENDS Integers, Sequences, FiniteSets

VARIABLES
    \* ---- the caller's inputs to measure_performance
    n_runs,        \* the n_runs argument
    func,          \* the operation: [kind, v, failAt, failKind]
    \* ---- measure_performance's frame
    pc,            \* position in measure_performance
    times,         \* the list timeit.repeat builds (one entry per timed call)
    t0,            \* the clock reading taken before the running timed call
    mean_time, median_time, std_time, retval,
    result,        \* the returned tuple, or NoResult
    error,         \* the exception leaving measure_performance, or "none"
    raisedBy,      \* where that exception was raised
    \* ---- the world outside the harness
    clock,         \* the monotonic clock (time.perf_counter)
    env,           \* state the operation mutates (a counter)
    calls,         \* invocations of func started so far
    active,        \* invocations of func in progress
    durs,          \* true duration of every finished timed invocation
    rets,          \* value returned by every finished invocation
    \* ---- measure_time: one frame per with-block
    tpc, start_time, end_time, lastRead, readPhase, exitReads

harnessVars == <<n_runs, func, pc, times, t0, mean_time, median_time, std_time,
                 retval, result, error, raisedBy, env, calls, active, durs, rets>>
timerVars == <<tpc, start_time, end_time, lastRead, readPhase, exitReads>>
vars == <<harnessVars, timerVars, clock>>

(***************************************************************************)
(* Bounds of the model.                                                    *)
(***************************************************************************)
MaxRuns == 3        \* largest n_runs tried
MaxDur == 1         \* longest duration of one invocation, in ticks
MaxGap == 1         \* longest pause of the harness between two invocations
NumTimers == 2      \* with-blocks of measure_time
MaxClock == 3       \* clock ticks while the with-blocks run

RunCounts == (0 - 1)..MaxRuns
Timers == 1..NumTimers

NoResult == <<>>
NoStat == [ok |-> FALSE, num |-> 0, den |-> 1]
Frac(a, b) == [ok |-> TRUE, num |-> a, den |-> b]

(***************************************************************************)
(* Helpers on sequences of integers.                                       *)
(***************************************************************************)
RECURSIVE Sum(_)
Sum(s) == IF s = <<>> THEN 0 ELSE Head(s) + Sum(Tail(s))

RECURSIVE SumSq(_)
SumSq(s) == IF s = <<>> THEN 0 ELSE Head(s) * Head(s) + SumSq(Tail(s))

RECURSIVE Insert(_, _)
Insert(x, s) ==
    IF s = <<>> THEN <<x>>
    ELSE IF x <= Head(s) THEN <<x>> \o s
    ELSE <<Head(s)>> \o Insert(x, Tail(s))

RECURSIVE sorted(_)
sorted(s) == IF s = <<>> THEN <<>> ELSE Insert(Head(s), sorted(Tail(s)))

Range(s) == {s[i] : i \in 1..Len(s)}
MinOf(s) == CHOOSE x \in Range(s) : \A y \in Range(s) : x <= y
MaxOf(s) == CHOOSE x \in Range(s) : \A y \in Range(s) : y <= x

\* a <= b for fractions with positive denominators
FracLeq(a, b) == a.num * b.den <= b.num * a.den
FracEq(a, b) == a.num * b.den = b.num * a.den
IntFrac(x) == Frac(x, 1)

(***************************************************************************)
(* statistics.mean / median / stdev as line 11-13 call them.  ok = FALSE   *)
(* stands for the StatisticsError each raises on too little data.          *)
(***************************************************************************)
mean(data) ==
    IF Len(data) < 1 THEN NoStat
    ELSE Frac(Sum(data), Len(data))

median_NoHalve(data) ==
    LET s == sorted(data)
        n == Len(s)
    IN  IF n = 0 THEN NoStat
        ELSE IF n % 2 = 1 THEN Frac(s[(n \div 2) + 1], 1)
        ELSE Frac(s[n \div 2] + s[(n \div 2) + 1], 1)

median(data) ==
    LET s == sorted(data)
        n == Len(s)
    IN  IF n = 0 THEN NoStat
        ELSE IF n % 2 = 1 THEN Frac(s[(n \div 2) + 1], 1)
        ELSE Frac(s[n \div 2] + s[(n \div 2) + 1], 2)

\* the sample variance ss / (n - 1), ss the sum of squared deviations:
\* (n * sum(x^2) - sum(x)^2) / (n * (n - 1))
stdev_NoCheck(data) ==
    LET n == Len(data)
    IN  IF n < 2 THEN Frac(0, 1)
        ELSE Frac(n * SumSq(data) - Sum(data) * Sum(data), n * (n - 1))

stdev(data) ==
    LET n == Len(data)
    IN  IF n < 2 THEN NoStat
        ELSE Frac(n * SumSq(data) - Sum(data) * Sum(data), n * (n - 1))

(***************************************************************************)
(* The operation under measurement.  It either always returns the value v  *)
(* ("const") or increments a counter and returns it ("counter"); its       *)
(* failAt-th invocation (0: none) raises or never returns.                 *)
(***************************************************************************)
Values == {10, 11}
Fates ==
    {[failAt |-> 0, failKind |-> "none"]}
        \cup [failAt : 1..(MaxRuns + 1), failKind : {"raise", "hang"}]
Funcs ==
    {[kind |-> "const", v |-> x, failAt |-> f.failAt, failKind |-> f.failKind] :
        x \in Values, f \in Fates}
    \cup
    {[kind |-> "counter", v |-> 0, failAt |-> f.failAt, failKind |-> f.failKind] :
        f \in Fates}

Raises(k) == func.failAt = k /\ func.failKind = "raise"
Hangs(k) == func.failAt = k /\ func.failKind = "hang"
EnvAfter(e) == IF func.kind = "counter" THEN e + 1 ELSE e
OpValue(e) == IF func.kind = "counter" THEN e + 1 ELSE func.v

\* for i in range(repeat) of timeit.repeat: is another timed call due?
MoreTrials_OneMore(done, repeat) == done <= repeat

MoreTrials(done, repeat) == done < repeat

\* timeit's inner(): _t1 - _t0 around the one call (number=1)
Elapsed(start, stop) == stop - start

(***************************************************************************)
(* Initial state: measure_performance has just been entered; no with-block *)
(* of measure_time has been entered.                                       *)
(***************************************************************************)
TimerInit ==
    /\ tpc = [t \in Timers |-> "idle"]
    /\ start_time = [t \in Timers |-> 0]
    /\ end_time = [t \in Timers |-> 0]
    /\ lastRead = [t \in Timers |-> 0]
    /\ readPhase = [t \in Timers |-> "none"]
    /\ exitReads = [t \in Timers |-> {}]

HarnessFrame ==
    /\ times = <<>>
    /\ t0 = 0
    /\ mean_time = NoStat
    /\ median_time = NoStat
    /\ std_time = NoStat
    /\ retval = 0
    /\ result = NoResult
    /\ error = "none"
    /\ raisedBy = "none"
    /\ env = 0
    /\ calls = 0
    /\ active = 0
    /\ durs = <<>>
    /\ rets = <<>>

Init ==
    /\ n_runs \in RunCounts
    /\ func \in Funcs
    /\ pc = "repeat"
    /\ HarnessFrame
    /\ clock = 0
    /\ TimerInit

(***************************************************************************)
(* measure_performance, line 10: timeit.repeat(func, repeat=n_runs,        *)
(* number=1).                                                              *)
(***************************************************************************)
TrialStart_Overlap ==
    /\ pc \in {"repeat", "trial"}
    /\ MoreTrials(Len(times), n_runs)
    /\ \E g \in 0..MaxGap :
        /\ clock' = clock + g
        /\ t0' = clock + g
    /\ calls' = calls + 1
    /\ active' = active + 1
    /\ pc' = "trial"
    /\ UNCHANGED <<n_runs, func, times, mean_time, median_time, std_time, retval,
                   result, error, raisedBy, env, durs, rets, timerVars>>

TrialStart ==
    /\ pc = "repeat"
    /\ MoreTrials(Len(times), n_runs)
    /\ \E g \in 0..MaxGap :
        /\ clock' = clock + g
        /\ t0' = clock + g
    /\ calls' = calls + 1
    /\ active' = active + 1
    /\ pc' = "trial"
    /\ UNCHANGED <<n_runs, func, times, mean_time, median_time, std_time, retval,
                   result, error, raisedBy, env, durs, rets, timerVars>>

TrialReturn_Timeout ==
    /\ pc = "trial"
    /\ ~Raises(calls)
    /\ \E d \in 0..MaxDur :
        /\ clock' = clock + d
        /\ times' = Append(times, Elapsed(t0, clock + d))
        /\ durs' = Append(durs, d)
    /\ env' = EnvAfter(env)
    /\ rets' = Append(rets, OpValue(env))
    /\ active' = active - 1
    /\ pc' = "repeat"
    /\ UNCHANGED <<n_runs, func, t0, mean_time, median_time, std_time, retval,
                   result, error, raisedBy, calls, timerVars>>

TrialReturn ==
    /\ pc = "trial"
    /\ ~Raises(calls)
    /\ ~Hangs(calls)
    /\ \E d \in 0..MaxDur :
        /\ clock' = clock + d
        /\ times' = Append(times, Elapsed(t0, clock + d))
        /\ durs' = Append(durs, d)
    /\ env' = EnvAfter(env)
    /\ rets' = Append(rets, OpValue(env))
    /\ active' = active - 1
    /\ pc' = "repeat"
    /\ UNCHANGED <<n_runs, func, t0, mean_time, median_time, std_time, retval,
                   result, error, raisedBy, calls, timerVars>>

TrialRaise_Swallow ==
    /\ pc = "trial"
    /\ Raises(calls)
    /\ times' = Append(times, Elapsed(t0, clock))
    /\ durs' = Append(durs, 0)
    /\ rets' = Append(rets, 0)
    /\ active' = active - 1
    /\ pc' = "repeat"
    /\ UNCHANGED <<n_runs, func, t0, mean_time, median_time, std_time, retval,
                   result, error, raisedBy, env, calls, clock, timerVars>>

TrialRaise ==
    /\ pc = "trial"
    /\ Raises(calls)
    /\ error' = "OpError"
    /\ raisedBy' = "func"
    /\ active' = active - 1
    /\ pc' = "raised"
    /\ UNCHANGED <<n_runs, func, times, t0, mean_time, median_time, std_time,
                   retval, result, env, calls, durs, rets, clock, timerVars>>

RepeatDone ==
    /\ pc = "repeat"
    /\ ~MoreTrials(Len(times), n_runs)
    /\ pc' = "mean"
    /\ UNCHANGED <<n_runs, func, times, t0, mean_time, median_time, std_time,
                   retval, result, error, raisedBy, env, calls, active, durs,
                   rets, clock, timerVars>>

(***************************************************************************)
(* Lines 11-13: the three statistics, in program order.  A StatisticsError *)
(* leaves measure_performance at once.                                     *)
(***************************************************************************)
ComputeMean ==
    /\ pc = "mean"
    /\ IF mean(times).ok
       THEN /\ mean_time' = mean(times)
            /\ pc' = "median"
            /\ UNCHANGED <<error, raisedBy>>
       ELSE /\ error' = "StatisticsError"
            /\ raisedBy' = "mean"
            /\ pc' = "raised"
            /\ UNCHANGED mean_time
    /\ UNCHANGED <<n_runs, func, times, t0, median_time, std_time, retval, result,
                   env, calls, active, durs, rets, clock, timerVars>>

ComputeMedian ==
    /\ pc = "median"
    /\ IF median(times).ok
       THEN /\ median_time' = median(times)
            /\ pc' = "stdev"
            /\ UNCHANGED <<error, raisedBy>>
       ELSE /\ error' = "StatisticsError"
            /\ raisedBy' = "median"
            /\ pc' = "raised"
            /\ UNCHANGED median_time
    /\ UNCHANGED <<n_runs, func, times, t0, mean_time, std_time, retval, result,
                   env, calls, active, durs, rets, clock, timerVars>>

ComputeStdev_SkipCall ==
    /\ pc = "stdev"
    /\ IF stdev(times).ok
       THEN /\ std_time' = stdev(times)
            /\ pc' = "ret"
            /\ UNCHANGED <<error, raisedBy>>
       ELSE /\ error' = "StatisticsError"
            /\ raisedBy' = "stdev"
            /\ pc' = "raised"
            /\ UNCHANGED std_time
    /\ UNCHANGED <<n_runs, func, times, t0, mean_time, median_time, retval, result,
                   env, calls, active, durs, rets, clock, timerVars>>

ComputeStdev ==
    /\ pc = "stdev"
    /\ IF stdev(times).ok
       THEN /\ std_time' = stdev(times)
            /\ pc' = "call"
            /\ UNCHANGED <<error, raisedBy>>
       ELSE /\ error' = "StatisticsError"
            /\ raisedBy' = "stdev"
            /\ pc' = "raised"
            /\ UNCHANGED std_time
    /\ UNCHANGED <<n_runs, func, times, t0, mean_time, median_time, retval, result,
                   env, calls, active, durs, rets, clock, timerVars>>

(***************************************************************************)
(* Line 14: retval = func(), the one untimed invocation.                   *)
(***************************************************************************)
FinalStart ==
    /\ pc = "call"
    /\ calls' = calls + 1
    /\ active' = active + 1
    /\ pc' = "final"
    /\ UNCHANGED <<n_runs, func, times, t0, mean_time, median_time, std_time,
                   retval, result, error, raisedBy, env, durs, rets, clock,
                   timerVars>>

FinalReturn_Discard ==
    /\ pc = "final"
    /\ ~Raises(calls)
    /\ ~Hangs(calls)
    /\ \E d \in 0..MaxDur : clock' = clock + d
    /\ env' = EnvAfter(env)
    /\ rets' = Append(rets, OpValue(env))
    /\ active' = active - 1
    /\ pc' = "ret"
    /\ UNCHANGED <<n_runs, func, times, t0, mean_time, median_time, std_time,
                   retval, result, error, raisedBy, calls, durs, timerVars>>

FinalReturn_FromTrial ==
    /\ pc = "final"
    /\ ~Raises(calls)
    /\ ~Hangs(calls)
    /\ \E d \in 0..MaxDur : clock' = clock + d
    /\ env' = EnvAfter(env)
    /\ rets' = Append(rets, OpValue(env))
    /\ retval' = rets[Len(rets)]
    /\ active' = active - 1
    /\ pc' = "ret"
    /\ UNCHANGED <<n_runs, func, times, t0, mean_time, median_time, std_time,
                   result, error, raisedBy, calls, durs, timerVars>>

FinalReturn ==
    /\ pc = "final"
    /\ ~Raises(calls)
    /\ ~Hangs(calls)
    /\ \E d \in 0..MaxDur : clock' = clock + d
    /\ env' = EnvAfter(env)
    /\ rets' = Append(rets, OpValue(env))
    /\ retval' = OpValue(env)
    /\ active' = active - 1
    /\ pc' = "ret"
    /\ UNCHANGED <<n_runs, func, times, t0, mean_time, median_time, std_time,
                   result, error, raisedBy, calls, durs, timerVars>>

FinalRaise ==
    /\ pc = "final"
    /\ Raises(calls)
    /\ error' = "OpError"
    /\ raisedBy' = "func"
    /\ active' = active - 1
    /\ pc' = "raised"
    /\ UNCHANGED <<n_runs, func, times, t0, mean_time, median_time, std_time,
                   retval, result, env, calls, durs, rets, clock, timerVars>>

(***************************************************************************)
(* Line 15: return retval, mean_time, median_time, std_time.               *)
(***************************************************************************)
Return ==
    /\ pc = "ret"
    /\ result' = <<retval, mean_time, median_time, std_time>>
    /\ pc' = "returned"
    /\ UNCHANGED <<n_runs, func, times, t0, mean_time, median_time, std_time,
                   retval, error, raisedBy, env, calls, active, durs, rets, clock,
                   timerVars>>

Next ==
    \/ TrialStart
    \/ TrialReturn
    \/ TrialRaise
    \/ RepeatDone
    \/ ComputeMean
    \/ ComputeMedian
    \/ ComputeStdev
    \/ FinalStart
    \/ FinalReturn
    \/ FinalRaise
    \/ Return

Spec == Init /\ [][Next]_vars

\* One thread runs the function top to bottom: an enabled step is taken.  An
\* invocation that never returns enables nothing.
FairSpec == Spec /\ WF_vars(Next)

(***************************************************************************)
(* measure_time (second script).  Each with-block owns a generator frame   *)
(* holding start_time and end_time; the closure it yields reads both.      *)
(***************************************************************************)
\* lambda: end_time - start_time       (line 40)
Closure_Now(t) == clock - start_time[t]

Closure(t) == end_time[t] - start_time[t]

\* the script's start: measure_performance belongs to the other script
InitTimer ==
    /\ n_runs = 0
    /\ func = [kind |-> "const", v |-> 0, failAt |-> 0, failKind |-> "none"]
    /\ pc = "off"
    /\ HarnessFrame
    /\ clock = 0
    /\ TimerInit

\* time.perf_counter never runs backwards; the body of a block takes time
Tick ==
    /\ clock < MaxClock
    /\ clock' = clock + 1
    /\ UNCHANGED <<harnessVars, timerVars>>

\* __enter__: line 39, then the yield of line 40
Enter(t) ==
    /\ tpc[t] = "idle"
    /\ start_time' = [start_time EXCEPT ![t] = clock]
    /\ end_time' = [end_time EXCEPT ![t] = clock]
    /\ tpc' = [tpc EXCEPT ![t] = "body"]
    /\ UNCHANGED <<harnessVars, clock, lastRead, readPhase, exitReads>>

\* __exit__ without an exception: the generator resumes and runs line 41
ExitNormal(t) ==
    /\ tpc[t] = "body"
    /\ end_time' = [end_time EXCEPT ![t] = clock]
    /\ tpc' = [tpc EXCEPT ![t] = "exited"]
    /\ UNCHANGED <<harnessVars, clock, start_time, lastRead, readPhase, exitReads>>

\* __exit__ with the body's exception: it is thrown into the generator at the
\* yield, which has no try/finally, so line 41 does not run
ExitRaise(t) ==
    /\ tpc[t] = "body"
    /\ tpc' = [tpc EXCEPT ![t] = "raised"]
    /\ UNCHANGED <<harnessVars, clock, start_time, end_time, lastRead, readPhase,
                   exitReads>>

\* a call of the yielded closure, e.g. pandas_read_csv() at line 89
CallClosure(t) ==
    /\ tpc[t] # "idle"
    /\ lastRead' = [lastRead EXCEPT ![t] = Closure(t)]
    /\ readPhase' = [readPhase EXCEPT ![t] = tpc[t]]
    /\ exitReads' = [exitReads EXCEPT ![t] =
                        IF tpc[t] = "exited" THEN @ \cup {Closure(t)} ELSE @]
    /\ UNCHANGED <<harnessVars, clock, tpc, start_time, end_time>>

NextTimer ==
    \/ Tick
    \/ \E t \in Timers : Enter(t)
    \/ \E t \in Timers : ExitNormal(t)
    \/ \E t \in Timers : ExitRaise(t)
    \/ \E t \in Timers : CallClosure(t)

SpecTimer == InitTimer /\ [][NextTimer]_vars

(***************************************************************************)
(* Properties of measure_performance.                                      *)
(***************************************************************************)
StatsDone == pc \in {"call", "final", "ret", "returned"}
TimingDone == pc \in {"mean", "median", "stdev"} \/ StatsDone
AllReturn == func.failAt = 0 \/ func.failAt > n_runs + 1
Hung == pc \in {"trial", "final"} /\ Hangs(calls)
NonNeg(n) == IF n < 0 THEN 0 ELSE n

C2_ExactlyNTrials ==
    (n_runs >= 2 /\ AllReturn) =>
        /\ Len(times) <= n_runs
        /\ (pc = "repeat" => calls = Len(times))
        /\ TimingDone =>
              /\ Len(times) = n_runs
              /\ times = durs
              /\ calls = (IF pc \in {"final", "ret", "returned"}
                          THEN n_runs + 1 ELSE n_runs)

C2_Witness ==
    /\ n_runs = 3 /\ pc = "returned" /\ func.kind = "counter"
    /\ times[1] # times[2]
    /\ clock > Sum(times)

C4_FailFast ==
    (func.failKind = "raise" /\ calls >= func.failAt) =>
        /\ calls = func.failAt
        /\ pc \in {"trial", "final", "raised"}
        /\ result = NoResult
        /\ pc = "raised" =>
              /\ error = "OpError"
              /\ raisedBy = "func"
              /\ active = 0

C4_Witness ==
    pc = "raised" /\ error = "OpError" /\ n_runs = 3 /\ calls = 2

\* C5: for trial_count >= 2 and an operation that always returns v, the first
\* element of the returned tuple is v.
C5_ConstValue ==
    (pc = "returned" /\ func.kind = "const") =>
        /\ n_runs >= 2
        /\ Len(result) = 4
        /\ result[1] = func.v

C5_Witness ==
    pc = "returned" /\ func.kind = "const" /\ func.v = 11 /\ result[1] = 11

\* C6: the invocations of one call are strictly sequential: at most one is in
\* progress, and an invocation starts only when all earlier ones have finished.
C6_Sequential ==
    /\ active \in {0, 1}
    /\ (active = 1) = (pc \in {"trial", "final"})
    /\ calls = Len(rets) + active + (IF raisedBy = "func" THEN 1 ELSE 0)

C6_Witness ==
    pc = "trial" /\ active = 1 /\ calls = 3 /\ Len(rets) = 2

\* C7: an invocation that never returns blocks measure_performance for good (no
\* result, no later invocation); and if trial_count >= 2 and every invocation
\* returns without raising, measure_performance eventually returns its result.
C7_BlocksOrReturns ==
    /\ [][Hung => (Hung' /\ calls' = calls /\ result' = NoResult)]_vars
    /\ [](Hung => result = NoResult)
    /\ (n_runs >= 2 /\ AllReturn) ~> (pc = "returned" /\ Len(result) = 4)

C7_Witness ==
    Hung /\ pc = "trial" /\ n_runs >= 2 /\ calls = 2

\* C8: for trial_count >= 2 the returned mean and median lie between the
\* smallest and the largest trial record; when all records equal d, mean and
\* median equal d and the sample standard deviation (divisor trial_count - 1)
\* is 0.
C8_Statistics ==
    pc = "returned" =>
        LET lo == IntFrac(MinOf(times))
            hi == IntFrac(MaxOf(times))
            m == result[2]
            md == result[3]
            sd == result[4]
        IN  /\ m.ok /\ md.ok /\ sd.ok
            /\ FracLeq(lo, m) /\ FracLeq(m, hi)
            /\ FracLeq(lo, md) /\ FracLeq(md, hi)
            /\ sd.den = Len(times) * (n_runs - 1)
            /\ sd.num >= 0
            /\ (lo = hi) =>
                  /\ FracEq(m, lo)
                  /\ FracEq(md, lo)
                  /\ sd.num = 0

C8_Witness ==
    pc = "returned" /\ n_runs = 2 /\ times = <<1, 1>> /\ result[4].num = 0

\* C9: for an operation that increments a counter and returns it, the value
\* returned is that of invocation trial_count + 1, not of a timed trial, and the
\* statistics are computed from the timed trials alone before that invocation
\* starts.
C9_ExtraInvocationValue ==
    /\ (pc = "returned" /\ func.kind = "counter") =>
          /\ result[1] = n_runs + 1
          /\ result[1] = rets[n_runs + 1]
          /\ \A i \in 1..n_runs : rets[i] # result[1]
    /\ pc \in {"final", "ret", "returned"} =>
          /\ Len(durs) = n_runs
          /\ mean_time = mean(durs)
          /\ median_time = median(durs)
          /\ std_time = stdev(durs)
          /\ std_time.ok

C9_Witness ==
    pc = "returned" /\ func.kind = "counter" /\ n_runs = 3 /\ result[1] = 4

(***************************************************************************)
(* Properties of measure_time.                                             *)
(***************************************************************************)
\* C10: the closure returns 0 when called before the with-block exits; after a
\* normal exit it returns end - start >= 0, the same on every call; if the body
\* raises, the end time is never recorded and the closure keeps returning 0.
C10_Closure ==
    \A t \in Timers :
        /\ readPhase[t] \in {"body", "raised"} => lastRead[t] = 0
        /\ readPhase[t] = "exited" =>
              /\ lastRead[t] = end_time[t] - start_time[t]
              /\ lastRead[t] >= 0
        /\ Cardinality(exitReads[t]) <= 1
        /\ tpc[t] = "raised" => end_time[t] = start_time[t]

C10_Witness ==
    \E t, u \in Timers :
        /\ readPhase[t] = "exited" /\ lastRead[t] > 0
        /\ readPhase[u] = "raised" /\ clock > start_time[u]

====
